---- MODULE Spec2Model ----
(***************************************************************************)
(* Model of LunarLanderAgent (src/lunar_lander_agent.py): the construction *)
(* of the agent, the control policy get_action and the episode loop        *)
(* visualise_trajectory.                                                   *)
(*                                                                         *)
(* Numbers.  The policy works on reals (floats).  Every quantity of the    *)
(* model is an integer count of 1/Scale, Scale = 14000, and every input    *)
(* is a multiple of 0.001 (M(k) is k thousandths).  On that grid the       *)
(* operations of the policy are exact: y/7 divides a multiple of 14 by 7,  *)
(* and *2.5 is *5 then /2 of an even number.  np.sin is a table of the     *)
(* sine rounded to three decimals on the angles of the grid.               *)
(***************************************************************************)
EXTENDS Integers, Sequences, FiniteSets

VARIABLES
    input,               \* the observation a direct caller of get_action holds
    env_config,          \* self.env_config, a dict: continuous, render_mode, id
    observation_as_rgb,  \* self.observation_as_rgb
    envsMade,            \* number of environments gym.make has built
    envsClosed,          \* number of environments closed by env.close()
    calls,               \* number of get_action calls made so far
    arg,                 \* get_action: the argument of the latest call
    yBooster,            \* get_action: local yBooster of the latest call
    xBooster,            \* get_action: local xBooster of the latest call
    result,              \* get_action: what the latest call returned or raised
    pc,                  \* visualise_trajectory: position in its body
    observation,         \* visualise_trajectory: local observation
    cumulative_rewards,  \* visualise_trajectory: local cumulative_rewards
    terminal,            \* visualise_trajectory: local terminal
    stepAction,          \* the action handed to the latest env.step
    rewardLog,           \* the rewards the simulator returned, in order
    reported,            \* the simulator has reported done or truncated
    ret                  \* what visualise_trajectory returned

vars == <<input, env_config, observation_as_rgb, envsMade, envsClosed, calls, arg,
          yBooster, xBooster, result, pc, observation, cumulative_rewards,
          terminal, stepAction, rewardLog, reported, ret>>

loopVars == <<pc, observation, cumulative_rewards, terminal, stepAction,
              rewardLog, reported, ret>>

----------------------------------------------------------------------------
(* Bounds of the model *)

\* A caller calls get_action on the observation it holds at most MaxCalls times.
MaxCalls == 1

\* The simulator truncates an episode at its MaxSteps-th step at the latest.
MaxSteps == 3

----------------------------------------------------------------------------
(* Fixed-point numbers *)

Scale == 14 * 1000

\* k thousandths
M(k) == k * (Scale \div 1000)

\* np.abs
Abs(v) == IF v < 0 THEN -v ELSE v

\* v / 7 (exact on the grid)
Div7(v) == v \div 7

\* v * 2.5 (exact on the grid)
Mul25(v) == (v * 5) \div 2

\* the angles of the grid
Thetas == {M(-400), 0, M(400)}

\* np.sin, rounded to three decimals: sin(0.4) = 0.389418...
Sin(theta) ==
    CASE theta = M(-400) -> M(-389)
      [] theta = 0       -> 0
      [] theta = M(400)  -> M(389)

----------------------------------------------------------------------------
(* Inputs *)

Xs == {M(-100), 0, M(100)}
Ys == {M(-10), M(30), M(49), M(50), M(100), M(101), M(150), M(151), M(300), M(700)}
XVs == {M(-50), 0, M(50)}
YVs == {M(-1000), M(-200), M(-101), M(-100), M(-80), M(-79), 0, M(50)}
Omegas == {M(-240), M(-200), 0, M(200), M(240)}

\* the 8-element observation vector of LunarLander
Observations ==
    [x : Xs, y : Ys, xv : XVs, yv : YVs, theta : Thetas, omega : Omegas,
     left : BOOLEAN, right : BOOLEAN]

NoObservation ==
    [x |-> 0, y |-> 0, xv |-> 0, yv |-> 0, theta |-> 0, omega |-> 0,
     left |-> FALSE, right |-> FALSE]

\* what get_action can be handed: an observation vector, or the frame env.render() returns
Vector(o) == [kind |-> "vector", vec |-> o]
Frame == [kind |-> "frame", vec |-> NoObservation]
NoArg == [kind |-> "none", vec |-> NoObservation]

\* the values env_config['continuous'] is given: True, False, no such key, None, 2
ModeValues == {"true", "false", "absent", "none", "two"}

\* Python truth value of env_config['continuous']
Truthy(m) == m \in {"true", "two"}

\* the values env_config['render_mode'] is given at construction
RenderModes == {"absent", "rgb_array"}

\* the dicts LunarLanderAgent is constructed with
InputConfigs == [continuous : ModeValues, render_mode : RenderModes, id : {"absent"}]

----------------------------------------------------------------------------
(* Construction *)

\* dict.setdefault on 'render_mode' and 'id'
set_default_env_config(cfg) ==
    [cfg EXCEPT !.render_mode = IF @ = "absent" THEN "None" ELSE @,
                !.id = IF @ = "absent" THEN "LunarLander-v2" ELSE @]

----------------------------------------------------------------------------
(* get_action *)

NoResult == [kind |-> "none", val |-> 0, vec |-> <<0, 0>>]
Discrete(a) == [kind |-> "discrete", val |-> a, vec |-> <<0, 0>>]
Continuous(yb, xb) == [kind |-> "continuous", val |-> 0, vec |-> <<yb, xb>>]
Raised(e) == [kind |-> e, val |-> 0, vec |-> <<0, 0>>]

\* the lander is still flying: observation[6] == False or observation[7] == False
StillFlying(o) == o.left = FALSE \/ o.right = FALSE

\* HeightMargin with the threshold test written y >= 0.10
HeightMargin_NonStrict(y) == IF y >= M(100) THEN Div7(y) ELSE -M(100)

\* the altitude term subtracted from |yv|: y/7 if y > 0.10 else -0.10
HeightMargin(y) == IF y > M(100) THEN Div7(y) ELSE -M(100)

\* YBoosterOf without the test on the contact flags
YBoosterOf_NoLandedCheck(o) ==
    IF o.yv < 0 THEN Abs(o.yv) - (IF o.y > M(100) THEN Div7(o.y) ELSE -M(100)) ELSE 0

\* local yBooster at the end of stage 1
YBoosterOf(o) ==
    IF StillFlying(o)
    THEN IF o.yv < 0 THEN Abs(o.yv) - HeightMargin(o.y) ELSE 0
    ELSE 0

\* local xBooster at the end of stage 1
XBoosterOf(o) ==
    (Mul25(Sin(o.theta)) + Mul25(o.omega)) - (o.x * 3 + o.xv * 4)

\* return 2 if yv < -0.1 else 0
BrakeOrCoast(o) == IF o.yv < -M(100) THEN 2 ELSE 0

\* Lateral with the thresholds written <= -0.5 and >= 0.5
Lateral_NonStrict(o, yb, xb) ==
    IF xb <= -M(500) THEN 1
    ELSE IF xb >= M(500) THEN 3
    ELSE IF o.yv > -M(80) /\ o.y > M(150) THEN 0
    ELSE BrakeOrCoast(o)

\* Lateral with the stable-descent test written with or
Lateral_StableOr(o, yb, xb) ==
    IF xb < -M(500) THEN 1
    ELSE IF xb > M(500) THEN 3
    ELSE IF o.yv > -M(80) \/ o.y > M(150) THEN 0
    ELSE BrakeOrCoast(o)

\* the else branch of y < 0.05
Lateral(o, yb, xb) ==
    IF xb < -M(500) THEN 1
    ELSE IF xb > M(500) THEN 3
    ELSE IF o.yv > -M(80) /\ o.y > M(150) THEN 0
    ELSE BrakeOrCoast(o)

\* Quantize with the near-ground test ahead of the dominance test
Quantize_NearGroundFirst(o, yb, xb) ==
    IF o.y < M(50) THEN BrakeOrCoast(o)
    ELSE IF yb > Abs(xb) THEN 2
    ELSE IF xb < -M(500) THEN 1
    ELSE IF xb > M(500) THEN 3
    ELSE IF o.yv > -M(80) /\ o.y > M(150) THEN 0
    ELSE BrakeOrCoast(o)

\* Quantize without the near-ground test
Quantize_NoNearGround(o, yb, xb) ==
    IF yb > Abs(xb) THEN 2
    ELSE IF xb < -M(500) THEN 1
    ELSE IF xb > M(500) THEN 3
    ELSE IF o.yv > -M(80) /\ o.y > M(150) THEN 0
    ELSE BrakeOrCoast(o)

\* the discrete branch of get_action
Quantize(o, yb, xb) ==
    IF yb > Abs(xb) THEN 2
    ELSE IF o.y < M(50) THEN BrakeOrCoast(o)
    ELSE Lateral(o, yb, xb)

\* Dispatch with the two components of the continuous action exchanged
Dispatch_Swapped(mode, o, yb, xb) ==
    IF mode = "absent" THEN Raised("KeyError")
    ELSE IF Truthy(mode) THEN Continuous(xb, yb)
    ELSE Discrete(IF yb > Abs(xb) THEN 2
                  ELSE IF o.y < M(50) THEN BrakeOrCoast(o)
                  ELSE Lateral(o, yb, xb))

\* the dispatch on self.env_config['continuous']
Dispatch(mode, o, yb, xb) ==
    IF mode = "absent" THEN Raised("KeyError")
    ELSE IF Truthy(mode) THEN Continuous(yb, xb)
    ELSE Discrete(Quantize(o, yb, xb))

\* the environments one get_action call builds (make_env) and closes (env.close)
EnvsPerCall == 1

\* get_action(a) under configuration cfg: its locals, its outcome and the
\* environments it built. A frame is not an observation vector: None cannot
\* be indexed (line 62) and an image row has no truth value (line 68), so the
\* call raises before anything else happens.
get_action(cfg, a) ==
    IF a.kind = "vector"
    THEN LET yb == YBoosterOf(a.vec)
             xb == XBoosterOf(a.vec)
         IN [yBooster |-> yb, xBooster |-> xb, envs |-> EnvsPerCall,
             result |-> Dispatch(cfg.continuous, a.vec, yb, xb)]
    ELSE [yBooster |-> 0, xBooster |-> 0, envs |-> 0,
          result |-> Raised("TypeError")]

----------------------------------------------------------------------------
(* Initial state: the agent has been constructed *)

Constructed ==
    /\ \E cfg \in InputConfigs :
          /\ env_config = set_default_env_config(cfg)
          /\ observation_as_rgb =
                (set_default_env_config(cfg).render_mode = "rgb_array")
    /\ envsMade = 0
    /\ envsClosed = 0
    /\ calls = 0
    /\ arg = NoArg
    /\ yBooster = 0
    /\ xBooster = 0
    /\ result = NoResult
    /\ pc = "idle"
    /\ observation = NoObservation
    /\ cumulative_rewards = 0
    /\ terminal = FALSE
    /\ stepAction = NoResult
    /\ rewardLog = <<>>
    /\ reported = FALSE
    /\ ret = 0

\* a caller holds any observation of the grid
Init == Constructed /\ input \in Observations

\* nobody but visualise_trajectory uses the agent
LoopInit == Constructed /\ input = NoObservation

\* the effect of one get_action call on the agent and on the call's record
DoGetAction(a) ==
    LET r == get_action(env_config, a)
    IN /\ arg' = a
       /\ yBooster' = r.yBooster
       /\ xBooster' = r.xBooster
       /\ result' = r.result
       /\ envsMade' = envsMade + r.envs
       /\ envsClosed' = envsClosed + r.envs
       /\ calls' = calls + 1
       /\ UNCHANGED <<input, env_config, observation_as_rgb>>

\* a caller asks the policy for an action on the observation it holds
CallGetAction ==
    /\ pc = "idle"
    /\ calls < MaxCalls
    /\ DoGetAction(Vector(input))
    /\ UNCHANGED loopVars

----------------------------------------------------------------------------
(* visualise_trajectory *)

\* the observations the simulator hands out (reset and step)
SimObservations ==
    { [x |-> 0, y |-> M(700), xv |-> 0, yv |-> M(-200), theta |-> 0,
       omega |-> 0, left |-> FALSE, right |-> FALSE],
      [x |-> M(100), y |-> M(300), xv |-> M(50), yv |-> M(-79),
       theta |-> M(400), omega |-> M(200), left |-> FALSE, right |-> FALSE],
      [x |-> 0, y |-> M(30), xv |-> 0, yv |-> M(-101), theta |-> 0,
       omega |-> 0, left |-> TRUE, right |-> FALSE],
      [x |-> 0, y |-> M(-10), xv |-> 0, yv |-> 0, theta |-> 0,
       omega |-> 0, left |-> TRUE, right |-> TRUE] }

\* the rewards the simulator hands out
Rewards == {-1, 0, 3}

\* Terminal written with and
Terminal_And(done, truncated) == done /\ truncated

\* terminal = done or truncated
Terminal(done, truncated) == done \/ truncated

\* the argument of the loop's get_action call: env.render()'s frame when
\* observation_as_rgb, the latest observation otherwise
LoopArg == IF observation_as_rgb THEN Frame ELSE Vector(observation)

\* lines 108-113: the visualisation environment is built and reset
VisualiseStart ==
    /\ pc = "idle"
    /\ envsMade' = envsMade + 1
    /\ \E o \in SimObservations : observation' = o
    /\ terminal' = FALSE
    /\ cumulative_rewards' = 0
    /\ pc' = "loop"
    /\ UNCHANGED <<input, env_config, observation_as_rgb, envsClosed, calls, arg,
                   yBooster, xBooster, result, stepAction, rewardLog,
                   reported, ret>>

\* lines 114-119: the loop test passes and the policy is asked for an action;
\* an exception of get_action leaves visualise_trajectory
LoopGetAction ==
    /\ pc = "loop"
    /\ ~terminal
    /\ DoGetAction(LoopArg)
    /\ pc' = IF result'.kind \in {"discrete", "continuous"}
             THEN "step" ELSE "raised"
    /\ UNCHANGED <<observation, cumulative_rewards, terminal, stepAction,
                   rewardLog, reported, ret>>

\* lines 120-122: env.step, the reward is added, terminal is computed. The
\* simulator's time limit truncates the episode at step MaxSteps.
LoopStep ==
    /\ pc = "step"
    /\ Len(rewardLog) <= MaxSteps
    /\ \E o \in SimObservations, reward \in Rewards,
          done \in BOOLEAN, truncated \in BOOLEAN :
          /\ Len(rewardLog) + 1 >= MaxSteps => truncated
          /\ observation' = o
          /\ cumulative_rewards' = cumulative_rewards + reward
          /\ terminal' = Terminal(done, truncated)
          /\ rewardLog' = Append(rewardLog, reward)
          /\ reported' = (reported \/ done \/ truncated)
    /\ stepAction' = result
    /\ pc' = "loop"
    /\ UNCHANGED <<input, env_config, observation_as_rgb, envsMade, envsClosed,
                   calls, arg, yBooster, xBooster, result, ret>>

\* line 123: the loop test fails and the sum is returned
LoopReturn ==
    /\ pc = "loop"
    /\ terminal
    /\ ret' = cumulative_rewards
    /\ pc' = "returned"
    /\ UNCHANGED <<input, env_config, observation_as_rgb, envsMade, envsClosed,
                   calls, arg, yBooster, xBooster, result, observation,
                   cumulative_rewards, terminal, stepAction, rewardLog,
                   reported>>

LoopNext ==
    \/ VisualiseStart
    \/ LoopGetAction
    \/ LoopStep
    \/ LoopReturn

\* visualise_trajectory is one sequential thread: its next statement runs
LoopSpec == LoopInit /\ [][LoopNext]_vars /\ WF_vars(LoopNext)

----------------------------------------------------------------------------
(* Direct calls of the policy *)

Next == CallGetAction

Spec == Init /\ [][Next]_vars


----------------------------------------------------------------------------
(* The claims *)

\* the observation of the latest get_action call
o == arg.vec

\* a direct call of get_action on an observation has returned or raised
Called == calls > 0 /\ arg.kind = "vector"

\* the call was made in the discrete mode, env_config['continuous'] = False
DiscreteCall == Called /\ env_config.continuous = "false"

\* the call was made in the continuous mode, env_config['continuous'] = True
ContinuousCall == Called /\ env_config.continuous = "true"

\* the sum of a sequence of rewards, taken in order
RECURSIVE SumSeq(_)
SumSeq(s) == IF s = <<>> THEN 0 ELSE SumSeq(SubSeq(s, 1, Len(s) - 1)) + s[Len(s)]

\* C1: a get_action call has no side effect: it builds, queries and closes
\* no simulator, so the number of simulators ever built (and closed) is the
\* same after the call as before it.
C1_NoSideEffect ==
    [][calls' = calls + 1 => (envsMade' = envsMade /\ envsClosed' = envsClosed)]_vars

\* C2: when env_config['continuous'] is neither True nor False (absent, None,
\* 2), get_action signals an error and returns no action.
C2_ModeValidated ==
    (Called /\ env_config.continuous \notin {"true", "false"})
        => result.kind \notin {"discrete", "continuous"}

\* C3: get_action is total: in the discrete mode it returns one of 0, 1, 2, 3
\* and in the continuous mode the pair (yBooster, xBooster); it never raises.
C3_Total ==
    /\ DiscreteCall => (result.kind = "discrete" /\ result.val \in 0..3)
    /\ ContinuousCall =>
          (result.kind = "continuous" /\ result.vec = <<yBooster, xBooster>>)

C3_Witness ==
    /\ ContinuousCall
    /\ result.kind = "continuous"
    /\ result.vec[1] > 0
    /\ result.vec[2] < 0

\* C4: with both contact flags true, and with yv >= 0 whatever the flags,
\* yBooster is 0 (and so is the first component of the continuous action).
C4_VerticalSuppressed ==
    (Called /\ ((o.left /\ o.right) \/ o.yv >= 0))
        => /\ yBooster = 0
           /\ ContinuousCall => result.vec[1] = 0

C4_Witness ==
    /\ ContinuousCall
    /\ o.left /\ o.right
    /\ o.yv < 0
    /\ yBooster = 0
    /\ result.vec[1] = 0

\* C5: flying and descending, yBooster = |yv| - y/7 when y > 0.10 and
\* yBooster = |yv| + 0.10 when y <= 0.10 (y = 0.10 included), where it is
\* greater than 0.10.
C5_VerticalTerm ==
    (Called /\ (~o.left \/ ~o.right) /\ o.yv < 0)
        => /\ o.y > M(100) => 7 * yBooster = 7 * Abs(o.yv) - o.y
           /\ o.y <= M(100) =>
                 (yBooster = Abs(o.yv) + M(100) /\ yBooster > M(100))

C5_Witness ==
    /\ Called
    /\ ~o.left
    /\ o.yv = M(-1000)
    /\ o.y = M(100)
    /\ yBooster = M(1100)

\* C6: in the discrete mode, yBooster > |xBooster| gives FIRE_MAIN (2)
\* whatever y and yv are; with yBooster = |xBooster| the rule does not fire:
\* FIRE_MAIN is then returned only by a brake rule, that is when yv < -0.1.
C6_Dominance ==
    /\ (DiscreteCall /\ yBooster > Abs(xBooster)) => result = Discrete(2)
    /\ (DiscreteCall /\ yBooster = Abs(xBooster) /\ o.yv >= -M(100))
          => result.val # 2

C6_Witness ==
    /\ DiscreteCall
    /\ yBooster > Abs(xBooster)
    /\ o.y < M(50)
    /\ o.yv >= -M(100)
    /\ result = Discrete(2)

\* C7: in the discrete mode, with y < 0.05 and not yBooster > |xBooster|,
\* the action is FIRE_MAIN (2) if yv < -0.1 and NOOP (0) otherwise; never
\* FIRE_LEFT or FIRE_RIGHT, however large |xBooster| is.
C7_NearGround ==
    (DiscreteCall /\ o.y < M(50) /\ ~(yBooster > Abs(xBooster)))
        => result = Discrete(IF o.yv < -M(100) THEN 2 ELSE 0)

C7_Witness ==
    /\ DiscreteCall
    /\ o.y < M(50)
    /\ ~(yBooster > Abs(xBooster))
    /\ xBooster > M(500)
    /\ o.yv < -M(100)
    /\ result = Discrete(2)

\* C8: in the discrete mode, with y >= 0.05 and yBooster <= |xBooster|, the
\* action is FIRE_LEFT (1) when xBooster < -0.5 and FIRE_RIGHT (3) when
\* xBooster > 0.5, whatever yv is; at xBooster = -0.5 or 0.5 it is neither.
C8_LateralFiring ==
    (DiscreteCall /\ o.y >= M(50) /\ yBooster <= Abs(xBooster))
        => /\ xBooster < -M(500) => result = Discrete(1)
           /\ xBooster > M(500) => result = Discrete(3)
           /\ xBooster \in {-M(500), M(500)} => result.val \notin {1, 3}

C8_Witness ==
    /\ DiscreteCall
    /\ o.y >= M(50)
    /\ yBooster <= Abs(xBooster)
    /\ yBooster > 0
    /\ xBooster < -M(500)
    /\ result = Discrete(1)

\* C9: in the discrete mode, with y >= 0.05, yBooster <= |xBooster| and
\* xBooster in [-0.5, 0.5], the action is NOOP (0) when yv > -0.08 and
\* y > 0.15, and otherwise FIRE_MAIN (2) if yv < -0.1, NOOP (0) if not; so
\* FIRE_MAIN is returned exactly when yv < -0.1.
C9_StableCoast ==
    (DiscreteCall /\ o.y >= M(50) /\ yBooster <= Abs(xBooster)
                  /\ xBooster >= -M(500) /\ xBooster <= M(500))
        => /\ (o.yv > -M(80) /\ o.y > M(150)) => result = Discrete(0)
           /\ ~(o.yv > -M(80) /\ o.y > M(150)) =>
                 result = Discrete(IF o.yv < -M(100) THEN 2 ELSE 0)
           /\ result.val = 2 <=> o.yv < -M(100)

C9_Witness ==
    /\ DiscreteCall
    /\ o.y > M(150)
    /\ yBooster <= Abs(xBooster)
    /\ xBooster >= -M(500) /\ xBooster <= M(500)
    /\ o.yv < -M(100)
    /\ result = Discrete(2)

\* what the loop has done so far, the argument of its get_action calls being
\* expected: calls and steps alternate, a step is made only when the call
\* returned an action and is handed that action, no call and no step follows a
\* step that reported done or truncated, and the value returned is the sum of
\* the rewards of all the steps.
LoopShape(expected) ==
    /\ pc = "idle" => (calls = 0 /\ rewardLog = <<>>)
    /\ pc = "loop" =>
          /\ calls = Len(rewardLog)
          /\ cumulative_rewards = SumSeq(rewardLog)
          /\ terminal = reported
          /\ rewardLog # <<>> => stepAction = result
    /\ pc = "step" =>
          /\ calls = Len(rewardLog) + 1
          /\ ~reported
          /\ arg = expected
          /\ result.kind \in {"discrete", "continuous"}
    /\ pc = "raised" =>
          /\ calls = Len(rewardLog) + 1
          /\ ~reported
          /\ arg = expected
          /\ result.kind \notin {"discrete", "continuous"}
    /\ pc = "returned" =>
          /\ reported
          /\ rewardLog # <<>>
          /\ calls = Len(rewardLog)
          /\ ret = SumSeq(rewardLog)

\* once the simulator has reported done or truncated, no call and no step
StopsAfterReport ==
    reported => (calls' = calls /\ rewardLog' = rewardLog)

\* visualise_trajectory is over
Finished == pc \in {"returned", "raised"}

====
